---- MODULE Spec2Model ----
(***************************************************************************)
(* Model of RaspberryPiSystem (src/RaspberryPiSystem.py): the capture      *)
(* loop of capture_screen, the reconnection procedure                      *)
(* attempt_reconnection, the delivery client (send_heartbeat,              *)
(* upload_image) and the startup cleanup of the staging directory.         *)
(*                                                                         *)
(* The program is one thread of control.  pc is its position; one action   *)
(* is one step of the code between two suspension points (a sleep, a       *)
(* network call, an open or a read of the video source).  Time is the      *)
(* wall clock in seconds; it advances only in time.sleep.                  *)
(***************************************************************************)
EXTENDS Integers, Sequences, FiniteSets

\* ---------------------------------------------------------------- constants
\* Program constants (defaults set in the source).
max_reconnect_attempts == 10
reconnect_delay == 5
interval == 5
HeartbeatPeriod == 30
SecondsPerDay == 86400

\* Bounds of the model.
MaxTime == 100
MaxCaptures == 2
MaxStale == 1

\* Python's None: no last_heartbeat timestamp, no filename, no answer yet.
None == -1

\* HTTP outcomes of one request: a status code, or a transport error (the
\* requests call raises).
Err == 0
Responses == {200, 201, 500, Err}

\* The history variable quiet stops counting one interval past the heartbeat
\* period: every longer silence is the same overdue silence.
QuietCap == HeartbeatPeriod + interval

\* Files left in the staging directory by an earlier run of the process.
StaleNames == {-1 - i : i \in 1..MaxStale}

VARIABLES
    pc,                 \* position of the single thread of control
    now,                \* wall clock, seconds since process start
    last_heartbeat,     \* self.last_heartbeat (None or a time)
    is_connected,       \* self.is_connected
    reconnect_attempts, \* self.reconnect_attempts
    cap,                \* capture_screen's local cap
    arcap,              \* attempt_reconnection's local cap
    frame,              \* the frame read in the current tick
    filename,           \* the artifact name of the current tick (see ArtifactName)
    outFiles,           \* names present in output_dir
    tempFiles,          \* names present in temp_dir
    \* history variables: what the program has emitted so far
    hbLast,             \* status of the last heartbeat emitted
    quiet,              \* seconds the source has stayed connected since the last
                        \* `online` heartbeat was emitted (0 while not connected)
    nOffline,           \* number of `offline` heartbeats emitted
    nUploads,           \* number of calls of upload_image
    upPost,             \* this tick: answer to the upload POST (None before)
    upInc,              \* this tick: answer to the increment GET (None if not made)
    upRet,              \* this tick: what upload_image returned
    rmFailed,           \* this tick: os.remove of the staging copy raised
    arLog,              \* events of the running attempt_reconnection call
    ep,                 \* the first disconnected episode since startup
    exitCause,          \* why the loop was left ("none" while it runs)
    released,           \* the finally block reached cv2.destroyAllWindows()
    posts,              \* artifact names given to upload_image, one per upload POST
    netCall,            \* the heartbeat or cleanup request made by the last step
    nCleanup,           \* number of runs of cleanup_temp_storage
    cleanupKept         \* staging files whose removal raised in cleanup_temp_storage

vars == <<pc, now, last_heartbeat, is_connected, reconnect_attempts, cap, arcap,
          frame, filename, outFiles, tempFiles, hbLast, quiet, nOffline,
          nUploads, upPost, upInc, upRet, rmFailed, arLog, ep, exitCause,
          released, posts, netCall, nCleanup, cleanupKept>>

progVars == <<last_heartbeat, is_connected, reconnect_attempts, cap, arcap,
              frame, filename, outFiles, tempFiles>>
tickHist == <<upPost, upInc, upRet, rmFailed>>
startupHist == <<nCleanup, cleanupKept>>

\* ------------------------------------------------------- the delivery client

\* send_heartbeat returning true for every answer, whatever its status.
HeartbeatReturnsOnAnswer(r) == r # Err

\* send_heartbeat: the value it returns for the answer r.
HeartbeatReturns(r) == r = 200

\* send_heartbeat stamping the time of the call whatever the answer.
HeartbeatStampAlways(r) == now

\* send_heartbeat: self.last_heartbeat after the call answered by r.
HeartbeatStamp(r) == IF r = 200 THEN now ELSE last_heartbeat

\* No request was made by the last step.
NoCall == [kind |-> "none", status |-> "none", resp |-> Err, ret |-> FALSE]

\* The call send_heartbeat(status) answered by r, with the value it returned.
HbCall(status, r) ==
    [kind |-> "heartbeat", status |-> status, resp |-> r, ret |-> HeartbeatReturns(r)]

\* The orphan-cleanup POST of cleanup_temp_storage answered by r; nothing is
\* returned to the caller.
CleanupCall(r) == [kind |-> "cleanup", status |-> "none", resp |-> r, ret |-> FALSE]

\* upload_image: the value it returns when the upload POST is answered by post
\* and the increment GET (made only after a 200) by inc.  Both requests are
\* inside the one try block, so a transport error of either returns False.
upload_image(post, inc) ==
    IF post = Err THEN FALSE
    ELSE IF post = 200
         THEN (IF inc = Err THEN FALSE ELSE TRUE)
         ELSE FALSE

\* The cadence test of the capture loop:
\*   not self.last_heartbeat or (datetime.now() - self.last_heartbeat).seconds > 30
HeartbeatDue ==
    \/ last_heartbeat = None
    \/ ((now - last_heartbeat) % SecondsPerDay) > HeartbeatPeriod

\* quiet after a sleep of d seconds with the source connected.
Quiet(d) == IF quiet + d > QuietCap THEN QuietCap ELSE quiet + d

\* The name of the artifact saved in this tick: {device_id}-{timestamp}.  Two
\* saves are always separated by a time.sleep(interval), so the timestamps of
\* the artifacts are pairwise distinct; the model names an artifact by its
\* rank in that order.
ArtifactName == Cardinality(outFiles) + 1

\* ------------------------------------------------------------ the first episode
\* ep records the episode that starts at startup and ends with the first
\* successful open: failed opens, values assigned to the counter, heartbeats.
EpStart == [phase |-> "run", fails |-> 0, trace |-> <<>>, disc |-> 0, online |-> 0]
EpOver  == [phase |-> "over", fails |-> 0, trace |-> <<>>, disc |-> 0, online |-> 0]

EpOpenFailed(e) == IF e.phase = "run" THEN [e EXCEPT !.fails = @ + 1] ELSE e
EpCounter(e, v) == IF e.phase = "run" THEN [e EXCEPT !.trace = Append(@, v)] ELSE e
EpOpened(e, v) ==
    IF e.phase = "run" THEN [e EXCEPT !.phase = "won", !.trace = Append(@, v)] ELSE e
EpDisconnected(e) == IF e.phase = "run" THEN [e EXCEPT !.disc = @ + 1] ELSE e
EpOnline(e) == IF e.phase \in {"run", "won"} THEN [e EXCEPT !.online = @ + 1] ELSE e

\* ------------------------------------------------------------------- Init
\* The state in __init__ after the fields are set and temp_dir exists, before
\* cleanup_temp_storage runs.
Init ==
    /\ pc = "cleanup"
    /\ now = 0
    /\ last_heartbeat = None
    /\ is_connected = FALSE
    /\ reconnect_attempts = 0
    /\ cap = "None"
    /\ arcap = "None"
    /\ frame = "none"
    /\ filename = None
    /\ outFiles = {}
    /\ tempFiles \in SUBSET StaleNames
    /\ hbLast = "none"
    /\ quiet = 0
    /\ nOffline = 0
    /\ nUploads = 0
    /\ upPost = None
    /\ upInc = None
    /\ upRet = FALSE
    /\ rmFailed = FALSE
    /\ arLog = <<>>
    /\ ep = EpStart
    /\ exitCause = "none"
    /\ released = FALSE
    /\ posts = <<>>
    /\ netCall = NoCall
    /\ nCleanup = 0
    /\ cleanupKept = {}

\* ------------------------------------------------------------------ startup

\* cleanup_temp_storage without the local purge: only the reconciliation
\* call is made.
CleanupSkipsPurge ==
    /\ pc = "cleanup"
    /\ \E kept \in SUBSET tempFiles, r \in Responses :
          /\ tempFiles' = tempFiles
          /\ cleanupKept' = kept
          /\ netCall' = CleanupCall(r)
    /\ nCleanup' = nCleanup + 1
    /\ pc' = "start"
    /\ UNCHANGED <<now, last_heartbeat, is_connected, reconnect_attempts, cap,
                   arcap, frame, filename, outFiles, hbLast, quiet, nOffline,
                   nUploads, posts, tickHist, arLog, ep, exitCause, released>>

\* cleanup_temp_storage: remove every staging file (a removal that raises is
\* logged and the file stays), then the orphan-cleanup POST, whose answer or
\* transport error is only logged.
CleanupTempStorage ==
    /\ pc = "cleanup"
    /\ \E kept \in SUBSET tempFiles, r \in Responses :
          /\ tempFiles' = kept
          /\ cleanupKept' = kept
          /\ netCall' = CleanupCall(r)
    /\ nCleanup' = nCleanup + 1
    /\ pc' = "start"
    /\ UNCHANGED <<now, last_heartbeat, is_connected, reconnect_attempts, cap,
                   arcap, frame, filename, outFiles, hbLast, quiet, nOffline,
                   nUploads, posts, tickHist, arLog, ep, exitCause, released>>

\* capture_screen up to the loop: the initial `online` heartbeat, cap = None.
CaptureStart ==
    /\ pc = "start"
    /\ \E r \in Responses :
          /\ last_heartbeat' = HeartbeatStamp(r)
          /\ netCall' = HbCall("online", r)
    /\ hbLast' = "online"
    /\ quiet' = 0
    /\ cap' = "None"
    /\ pc' = "loop"
    /\ UNCHANGED <<now, is_connected, reconnect_attempts, arcap, frame, filename,
                   outFiles, tempFiles, nOffline, nUploads, posts, tickHist, arLog, ep,
                   exitCause, released, startupHist>>

\* ------------------------------------------------------------ the capture loop

\* LoopOpen without `self.reconnect_attempts = 0` on a successful direct open.
LoopOpenKeepsCounter ==
    /\ pc = "loop"
    /\ cap # "opened"
    /\ \E ok \in BOOLEAN :
          IF ok
          THEN /\ cap' = "opened"
               /\ is_connected' = TRUE
               /\ reconnect_attempts' = reconnect_attempts
               /\ ep' = EpOpened(ep, reconnect_attempts)
               /\ pc' = "read"
          ELSE /\ cap' = "unopened"
               /\ ep' = EpOpenFailed(ep)
               /\ pc' = "ar_inc"
               /\ UNCHANGED <<is_connected, reconnect_attempts>>
    /\ quiet' = 0
    /\ netCall' = NoCall
    /\ UNCHANGED <<now, last_heartbeat, arcap, frame, filename, outFiles,
                   tempFiles, hbLast, nOffline, nUploads, posts, tickHist,
                   arLog, exitCause, released, startupHist>>

\* Top of an iteration with no open handle: cv2.VideoCapture(device).
\* Opened: is_connected, counter reset, on to the read.  Not opened: the
\* unopened handle stays in cap and attempt_reconnection is called.
LoopOpen ==
    /\ pc = "loop"
    /\ cap # "opened"
    /\ \E ok \in BOOLEAN :
          IF ok
          THEN /\ cap' = "opened"
               /\ is_connected' = TRUE
               /\ reconnect_attempts' = 0
               /\ ep' = EpOpened(ep, 0)
               /\ pc' = "read"
          ELSE /\ cap' = "unopened"
               /\ ep' = EpOpenFailed(ep)
               /\ pc' = "ar_inc"
               /\ UNCHANGED <<is_connected, reconnect_attempts>>
    /\ quiet' = 0
    /\ netCall' = NoCall
    /\ UNCHANGED <<now, last_heartbeat, arcap, frame, filename, outFiles,
                   tempFiles, hbLast, nOffline, nUploads, posts, tickHist,
                   arLog, exitCause, released, startupHist>>

\* Top of an iteration with an open handle: straight to the read.
LoopKeep ==
    /\ pc = "loop"
    /\ cap = "opened"
    /\ pc' = "read"
    /\ netCall' = NoCall
    /\ UNCHANGED <<now, progVars, hbLast, quiet, nOffline, nUploads, posts, tickHist,
                   arLog, ep, exitCause, released, startupHist>>

\* ret, frame = cap.read().  A failed read goes on to the disconnect
\* handling below; a frame goes on to the black-frame test.
Read ==
    /\ pc = "read"
    /\ \E f \in {"fail", "black", "image"} :
          /\ f = "image" => Cardinality(outFiles) < MaxCaptures
          /\ IF f = "fail"
             THEN /\ frame' = "none"
                  /\ quiet' = 0
                  /\ pc' = "rd_mark"
             ELSE /\ frame' = f
                  /\ quiet' = quiet
                  /\ pc' = "classify"
    /\ ep' = IF ep.phase = "won" THEN EpOver ELSE ep
    /\ filename' = None
    /\ netCall' = NoCall
    /\ UNCHANGED <<now, last_heartbeat, is_connected, reconnect_attempts, cap,
                   arcap, outFiles, tempFiles, hbLast, nOffline, nUploads, posts,
                   tickHist, arLog, exitCause, released, startupHist>>

\* The disconnect handling without `self.is_connected = False`.
ReadFailed_MarkForgotten ==
    /\ pc = "rd_mark"
    /\ pc' = "rd_release"
    /\ netCall' = NoCall
    /\ UNCHANGED <<now, progVars, hbLast, quiet, nOffline, nUploads, posts,
                   tickHist, arLog, ep, exitCause, released, startupHist>>

\* if not ret: self.is_connected = False
ReadFailed_Mark ==
    /\ pc = "rd_mark"
    /\ is_connected' = FALSE
    /\ pc' = "rd_release"
    /\ netCall' = NoCall
    /\ UNCHANGED <<now, last_heartbeat, reconnect_attempts, cap, arcap, frame,
                   filename, outFiles, tempFiles, hbLast, quiet, nOffline,
                   nUploads, posts, tickHist, arLog, ep, exitCause, released,
                   startupHist>>

\* cap.release(); cap = None; then attempt_reconnection is called.
ReadFailed_Release ==
    /\ pc = "rd_release"
    /\ cap' = "None"
    /\ pc' = "ar_inc"
    /\ netCall' = NoCall
    /\ UNCHANGED <<now, last_heartbeat, is_connected, reconnect_attempts, arcap,
                   frame, filename, outFiles, tempFiles, hbLast, quiet, nOffline,
                   nUploads, posts, tickHist, arLog, ep, exitCause, released,
                   startupHist>>

\* Classify without the black-frame test: every frame read goes on to save.
ClassifyNoFilter ==
    /\ pc = "classify"
    /\ pc' = "save"
    /\ netCall' = NoCall
    /\ UNCHANGED <<now, progVars, hbLast, quiet, nOffline, nUploads, posts, tickHist,
                   arLog, ep, exitCause, released, startupHist>>

\* if frame.sum() == 0: sleep and continue; otherwise go on to save.
Classify ==
    /\ pc = "classify"
    /\ pc' = IF frame = "black" THEN "sleep_black" ELSE "save"
    /\ netCall' = NoCall
    /\ UNCHANGED <<now, progVars, hbLast, quiet, nOffline, nUploads, posts, tickHist,
                   arLog, ep, exitCause, released, startupHist>>

\* time.sleep(interval) of a tick that saw a black frame, then continue.
SleepBlack ==
    /\ pc = "sleep_black"
    /\ now + interval <= MaxTime
    /\ now' = now + interval
    /\ quiet' = Quiet(interval)
    /\ pc' = "loop"
    /\ netCall' = NoCall
    /\ UNCHANGED <<progVars, hbLast, nOffline, nUploads, posts, tickHist,
                   arLog, ep, exitCause, released, startupHist>>

\* The artifact name (device id and timestamp) and the two imwrite
\* calls, to output_dir and to temp_dir.
Save ==
    /\ pc = "save"
    /\ filename' = ArtifactName
    /\ outFiles' = outFiles \cup {ArtifactName}
    /\ tempFiles' = tempFiles \cup {ArtifactName}
    /\ pc' = "upload"
    /\ netCall' = NoCall
    /\ UNCHANGED <<now, last_heartbeat, is_connected, reconnect_attempts, cap,
                   arcap, frame, hbLast, quiet, nOffline, nUploads, posts, tickHist,
                   arLog, ep, exitCause, released, startupHist>>

\* Upload with the removal moved out of the if: the staging copy is removed
\* whatever upload_image returned.
UploadAlwaysRemoves ==
    /\ pc = "upload"
    /\ \E post \in Responses, inc \in Responses, rmok \in BOOLEAN :
          /\ upPost' = post
          /\ upInc' = IF post = 200 THEN inc ELSE None
          /\ upRet' = upload_image(post, inc)
          /\ rmFailed' = (upload_image(post, inc) /\ ~rmok)
          /\ tempFiles' = IF rmok THEN tempFiles \ {filename} ELSE tempFiles
    /\ nUploads' = nUploads + 1
    /\ posts' = Append(posts, filename)
    /\ netCall' = NoCall
    /\ pc' = "hbcheck"
    /\ UNCHANGED <<now, last_heartbeat, is_connected, reconnect_attempts, cap,
                   arcap, frame, filename, outFiles, hbLast, quiet, nOffline,
                   arLog, ep, exitCause, released, startupHist>>

\* Upload with one retry inside the client: an upload that failed is POSTed a
\* second time.
UploadRetries ==
    /\ pc = "upload"
    /\ \E post \in Responses, inc \in Responses, rmok \in BOOLEAN :
          /\ upPost' = post
          /\ upInc' = IF post = 200 THEN inc ELSE None
          /\ upRet' = upload_image(post, inc)
          /\ rmFailed' = (upload_image(post, inc) /\ ~rmok)
          /\ tempFiles' = IF upload_image(post, inc) /\ rmok
                          THEN tempFiles \ {filename}
                          ELSE tempFiles
    /\ nUploads' = nUploads + 1
    /\ posts' = IF upRet' THEN Append(posts, filename)
                        ELSE Append(Append(posts, filename), filename)
    /\ netCall' = NoCall
    /\ pc' = "hbcheck"
    /\ UNCHANGED <<now, last_heartbeat, is_connected, reconnect_attempts, cap,
                   arcap, frame, filename, outFiles, hbLast, quiet, nOffline,
                   arLog, ep, exitCause, released, startupHist>>

\* Upload with the increment GET moved out of the status test: it is made
\* whatever the upload POST was answered.
UploadIncrementsAlways ==
    /\ pc = "upload"
    /\ \E post \in Responses, inc \in Responses, rmok \in BOOLEAN :
          /\ upPost' = post
          /\ upInc' = inc
          /\ upRet' = upload_image(post, inc)
          /\ rmFailed' = (upload_image(post, inc) /\ ~rmok)
          /\ tempFiles' = IF upload_image(post, inc) /\ rmok
                          THEN tempFiles \ {filename}
                          ELSE tempFiles
    /\ nUploads' = nUploads + 1
    /\ posts' = Append(posts, filename)
    /\ netCall' = NoCall
    /\ pc' = "hbcheck"
    /\ UNCHANGED <<now, last_heartbeat, is_connected, reconnect_attempts, cap,
                   arcap, frame, filename, outFiles, hbLast, quiet, nOffline,
                   arLog, ep, exitCause, released, startupHist>>

\* Upload removing the file it uploaded, the output copy, along with the
\* staging copy.
UploadRemovesOutputCopy ==
    /\ pc = "upload"
    /\ \E post \in Responses, inc \in Responses, rmok \in BOOLEAN :
          /\ upPost' = post
          /\ upInc' = IF post = 200 THEN inc ELSE None
          /\ upRet' = upload_image(post, inc)
          /\ rmFailed' = (upload_image(post, inc) /\ ~rmok)
          /\ tempFiles' = IF upload_image(post, inc) /\ rmok
                          THEN tempFiles \ {filename}
                          ELSE tempFiles
    /\ outFiles' = IF upRet' THEN outFiles \ {filename} ELSE outFiles
    /\ nUploads' = nUploads + 1
    /\ posts' = Append(posts, filename)
    /\ netCall' = NoCall
    /\ pc' = "hbcheck"
    /\ UNCHANGED <<now, last_heartbeat, is_connected, reconnect_attempts, cap,
                   arcap, frame, filename, hbLast, quiet, nOffline,
                   arLog, ep, exitCause, released, startupHist>>

\* if self.upload_image(filepath): os.remove(temp_filepath), a removal that
\* raises being logged only; else the staging copy is kept.
Upload ==
    /\ pc = "upload"
    /\ \E post \in Responses, inc \in Responses, rmok \in BOOLEAN :
          /\ upPost' = post
          /\ upInc' = IF post = 200 THEN inc ELSE None
          /\ upRet' = upload_image(post, inc)
          /\ rmFailed' = (upload_image(post, inc) /\ ~rmok)
          /\ tempFiles' = IF upload_image(post, inc) /\ rmok
                          THEN tempFiles \ {filename}
                          ELSE tempFiles
    /\ nUploads' = nUploads + 1
    /\ posts' = Append(posts, filename)
    /\ netCall' = NoCall
    /\ pc' = "hbcheck"
    /\ UNCHANGED <<now, last_heartbeat, is_connected, reconnect_attempts, cap,
                   arcap, frame, filename, outFiles, hbLast, quiet, nOffline,
                   arLog, ep, exitCause, released, startupHist>>

\* The cadence check at the end of a tick that saved an artifact.
HeartbeatCheck ==
    /\ pc = "hbcheck"
    /\ IF HeartbeatDue
       THEN /\ \E r \in Responses :
                  /\ last_heartbeat' = HeartbeatStamp(r)
                  /\ netCall' = HbCall("online", r)
            /\ hbLast' = "online"
            /\ quiet' = 0
            /\ ep' = EpOnline(ep)
       ELSE /\ netCall' = NoCall
            /\ UNCHANGED <<last_heartbeat, hbLast, quiet, ep>>
    /\ pc' = "sleep_tick"
    /\ UNCHANGED <<now, is_connected, reconnect_attempts, cap, arcap, frame,
                   filename, outFiles, tempFiles, nOffline, nUploads, posts, tickHist,
                   arLog, exitCause, released, startupHist>>

\* time.sleep(interval) at the end of a tick that saved an artifact.
SleepTick ==
    /\ pc = "sleep_tick"
    /\ now + interval <= MaxTime
    /\ now' = now + interval
    /\ quiet' = Quiet(interval)
    /\ upPost' = None
    /\ upInc' = None
    /\ upRet' = FALSE
    /\ rmFailed' = FALSE
    /\ pc' = "loop"
    /\ netCall' = NoCall
    /\ UNCHANGED <<progVars, hbLast, nOffline, nUploads, posts,
                   arLog, ep, exitCause, released, startupHist>>

\* time.sleep(interval) and continue, after attempt_reconnection returned None.
SleepRetry ==
    /\ pc = "sleep_retry"
    /\ now + interval <= MaxTime
    /\ now' = now + interval
    /\ pc' = "loop"
    /\ netCall' = NoCall
    /\ UNCHANGED <<progVars, hbLast, quiet, nOffline, nUploads, posts, tickHist,
                   arLog, ep, exitCause, released, startupHist>>

\* ------------------------------------------------------ attempt_reconnection

\* attempt_reconnection with the exhaustion test moved ahead of the
\* heartbeat: an exhausted invocation returns without sending anything.
AR_IncrementChecksFirst ==
    /\ pc = "ar_inc"
    /\ reconnect_attempts' = reconnect_attempts + 1
    /\ ep' = EpCounter(ep, reconnect_attempts + 1)
    /\ arLog' = <<"inc">>
    /\ pc' = IF reconnect_attempts + 1 >= max_reconnect_attempts
             THEN "ar_check" ELSE "ar_hb"
    /\ netCall' = NoCall
    /\ UNCHANGED <<now, last_heartbeat, is_connected, cap, arcap, frame, filename,
                   outFiles, tempFiles, hbLast, quiet, nOffline, nUploads, posts,
                   tickHist, exitCause, released, startupHist>>

\* self.reconnect_attempts += 1
AR_Increment ==
    /\ pc = "ar_inc"
    /\ reconnect_attempts' = reconnect_attempts + 1
    /\ ep' = EpCounter(ep, reconnect_attempts + 1)
    /\ arLog' = <<"inc">>
    /\ pc' = "ar_hb"
    /\ netCall' = NoCall
    /\ UNCHANGED <<now, last_heartbeat, is_connected, cap, arcap, frame, filename,
                   outFiles, tempFiles, hbLast, quiet, nOffline, nUploads, posts,
                   tickHist, exitCause, released, startupHist>>

\* self.send_heartbeat("disconnected")
AR_HeartbeatDisconnected ==
    /\ pc = "ar_hb"
    /\ \E r \in Responses :
          /\ last_heartbeat' = HeartbeatStamp(r)
          /\ netCall' = HbCall("disconnected", r)
    /\ hbLast' = "disconnected"
    /\ ep' = EpDisconnected(ep)
    /\ arLog' = Append(arLog, "disconnected")
    /\ pc' = "ar_check"
    /\ UNCHANGED <<now, is_connected, reconnect_attempts, cap, arcap, frame,
                   filename, outFiles, tempFiles, quiet, nOffline, nUploads, posts,
                   tickHist, exitCause, released, startupHist>>

\* AR_CheckMax with a permanent stop at exhaustion: the loop is left for good.
AR_CheckMaxGivesUp ==
    /\ pc = "ar_check"
    /\ IF reconnect_attempts >= max_reconnect_attempts
       THEN /\ cap' = "None"
            /\ arLog' = <<>>
            /\ pc' = "gave_up"
       ELSE /\ pc' = "ar_sleep"
            /\ UNCHANGED <<cap, arLog>>
    /\ netCall' = NoCall
    /\ UNCHANGED <<now, last_heartbeat, is_connected, reconnect_attempts, arcap,
                   frame, filename, outFiles, tempFiles, hbLast, quiet,
                   nOffline, nUploads, posts, tickHist, ep, exitCause, released, startupHist>>

\* if self.reconnect_attempts >= self.max_reconnect_attempts: return None
\* The caller assigns the result to cap.
AR_CheckMax ==
    /\ pc = "ar_check"
    /\ IF reconnect_attempts >= max_reconnect_attempts
       THEN /\ cap' = "None"
            /\ arLog' = <<>>
            /\ pc' = "sleep_retry"
       ELSE /\ pc' = "ar_sleep"
            /\ UNCHANGED <<cap, arLog>>
    /\ netCall' = NoCall
    /\ UNCHANGED <<now, last_heartbeat, is_connected, reconnect_attempts, arcap,
                   frame, filename, outFiles, tempFiles, hbLast, quiet,
                   nOffline, nUploads, posts, tickHist, ep, exitCause, released, startupHist>>

\* time.sleep(self.reconnect_delay)
AR_Backoff ==
    /\ pc = "ar_sleep"
    /\ now + reconnect_delay <= MaxTime
    /\ now' = now + reconnect_delay
    /\ arLog' = Append(arLog, "sleep")
    /\ pc' = "ar_open"
    /\ netCall' = NoCall
    /\ UNCHANGED <<progVars, hbLast, quiet, nOffline, nUploads, posts, tickHist, ep,
                   exitCause, released, startupHist>>

\* AR_Open without `self.reconnect_attempts = 0` on success.
AR_OpenKeepsCounter ==
    /\ pc = "ar_open"
    /\ \E ok \in BOOLEAN :
          IF ok
          THEN /\ arcap' = "opened"
               /\ is_connected' = TRUE
               /\ ep' = EpOpened(ep, reconnect_attempts)
               /\ arLog' = Append(arLog, "open")
               /\ pc' = "ar_online"
               /\ UNCHANGED <<cap, reconnect_attempts>>
          ELSE /\ arcap' = "None"
               /\ cap' = "None"
               /\ ep' = EpOpenFailed(ep)
               /\ arLog' = <<>>
               /\ pc' = "sleep_retry"
               /\ UNCHANGED <<is_connected, reconnect_attempts>>
    /\ netCall' = NoCall
    /\ UNCHANGED <<now, last_heartbeat, frame, filename, outFiles, tempFiles,
                   hbLast, quiet, nOffline, nUploads, posts, tickHist, exitCause,
                   released, startupHist>>

\* cap = cv2.VideoCapture(device) inside attempt_reconnection.  Opened:
\* is_connected, counter reset, on to the `online` heartbeat.  Not opened:
\* the handle is released and None is returned to the caller's cap.
AR_Open ==
    /\ pc = "ar_open"
    /\ \E ok \in BOOLEAN :
          IF ok
          THEN /\ arcap' = "opened"
               /\ is_connected' = TRUE
               /\ reconnect_attempts' = 0
               /\ ep' = EpOpened(ep, 0)
               /\ arLog' = Append(arLog, "open")
               /\ pc' = "ar_online"
               /\ UNCHANGED cap
          ELSE /\ arcap' = "None"
               /\ cap' = "None"
               /\ ep' = EpOpenFailed(ep)
               /\ arLog' = <<>>
               /\ pc' = "sleep_retry"
               /\ UNCHANGED <<is_connected, reconnect_attempts>>
    /\ netCall' = NoCall
    /\ UNCHANGED <<now, last_heartbeat, frame, filename, outFiles, tempFiles,
                   hbLast, quiet, nOffline, nUploads, posts, tickHist, exitCause,
                   released, startupHist>>

\* self.send_heartbeat("online"); return cap.  The caller assigns the handle
\* to its cap and goes on to the read.
AR_HeartbeatOnline ==
    /\ pc = "ar_online"
    /\ \E r \in Responses :
          /\ last_heartbeat' = HeartbeatStamp(r)
          /\ netCall' = HbCall("online", r)
    /\ hbLast' = "online"
    /\ quiet' = 0
    /\ ep' = EpOnline(ep)
    /\ cap' = arcap
    /\ arcap' = "None"
    /\ arLog' = <<>>
    /\ pc' = "read"
    /\ UNCHANGED <<now, is_connected, reconnect_attempts, frame, filename,
                   outFiles, tempFiles, nOffline, nUploads, posts, tickHist, exitCause,
                   released, startupHist>>

\* ------------------------------------------------------------------ shutdown

LoopPcs == {"loop", "read", "rd_mark", "rd_release", "classify",
            "sleep_black", "save", "upload", "hbcheck", "sleep_tick",
            "sleep_retry", "ar_inc", "ar_hb", "ar_check", "ar_sleep", "ar_open",
            "ar_online"}

\* The histories of the running tick, of the running attempt_reconnection
\* call and of the first episode end when the loop is left.
LoopHistoryClosed ==
    /\ quiet' = 0
    /\ upPost' = None
    /\ upInc' = None
    /\ upRet' = FALSE
    /\ rmFailed' = FALSE
    /\ arLog' = <<>>
    /\ ep' = EpOver

\* KeyboardInterrupt raised anywhere inside the try block.
Interrupt ==
    /\ pc \in LoopPcs
    /\ pc' = "finally"
    /\ exitCause' = "interrupt"
    /\ netCall' = NoCall
    /\ LoopHistoryClosed
    /\ UNCHANGED <<now, progVars, hbLast, nOffline, nUploads, posts, released,
                   startupHist>>



\* An exception other than KeyboardInterrupt raised by a call the loop does
\* not guard (cap.read, frame.sum, cv2.imwrite): caught by `except Exception`.
Fault ==
    /\ pc \in {"read", "classify", "save"}
    /\ pc' = "finally"
    /\ exitCause' = "fault"
    /\ netCall' = NoCall
    /\ LoopHistoryClosed
    /\ UNCHANGED <<now, progVars, hbLast, nOffline, nUploads, posts, released,
                   startupHist>>



\* The finally block without the try/except around the offline heartbeat and
\* with a send_heartbeat that lets a transport error propagate: the error
\* leaves capture_screen before the handle is released.
Fin_HeartbeatOfflineUnguarded ==
    /\ pc = "finally"
    /\ \E r \in Responses :
          /\ last_heartbeat' = HeartbeatStamp(r)
          /\ netCall' = HbCall("offline", r)
          /\ pc' = IF r = Err THEN "crashed" ELSE "fin_release"
    /\ hbLast' = "offline"
    /\ nOffline' = nOffline + 1
    /\ UNCHANGED <<now, is_connected, reconnect_attempts, cap, arcap, frame,
                   filename, outFiles, tempFiles, quiet, nUploads, posts, tickHist,
                   arLog, ep, exitCause, released, startupHist>>

\* finally: self.send_heartbeat("offline") inside try/except: pass.
Fin_HeartbeatOffline ==
    /\ pc = "finally"
    /\ \E r \in Responses :
          /\ last_heartbeat' = HeartbeatStamp(r)
          /\ netCall' = HbCall("offline", r)
    /\ hbLast' = "offline"
    /\ nOffline' = nOffline + 1
    /\ pc' = "fin_release"
    /\ UNCHANGED <<now, is_connected, reconnect_attempts, cap, arcap, frame,
                   filename, outFiles, tempFiles, quiet, nUploads, posts, tickHist,
                   arLog, ep, exitCause, released, startupHist>>

\* finally: if cap is not None: cap.release(); cv2.destroyAllWindows().
Fin_Release ==
    /\ pc = "fin_release"
    /\ cap' = IF cap = "None" THEN "None" ELSE "released"
    /\ released' = TRUE
    /\ pc' = "done"
    /\ netCall' = NoCall
    /\ UNCHANGED <<now, last_heartbeat, is_connected, reconnect_attempts, arcap,
                   frame, filename, outFiles, tempFiles, hbLast, quiet,
                   nOffline, nUploads, posts, tickHist, arLog, ep, exitCause, startupHist>>

\* ---------------------------------------------------------------------- Next
Next ==
    \/ CleanupTempStorage
    \/ CaptureStart
    \/ LoopOpen
    \/ LoopKeep
    \/ Read
    \/ ReadFailed_Mark
    \/ ReadFailed_Release
    \/ Classify
    \/ SleepBlack
    \/ Save
    \/ Upload
    \/ HeartbeatCheck
    \/ SleepTick
    \/ SleepRetry
    \/ AR_Increment
    \/ AR_HeartbeatDisconnected
    \/ AR_CheckMax
    \/ AR_Backoff
    \/ AR_Open
    \/ AR_HeartbeatOnline
    \/ Interrupt
    \/ Fault
    \/ Fin_HeartbeatOffline
    \/ Fin_Release

Spec == Init /\ [][Next]_vars

\* A run without external interruption and without an unexpected fault: the
\* steps of the startup and of the capture loop only.
NextLoop ==
    \/ CleanupTempStorage
    \/ CaptureStart
    \/ LoopOpen
    \/ LoopKeep
    \/ Read
    \/ ReadFailed_Mark
    \/ ReadFailed_Release
    \/ Classify
    \/ SleepBlack
    \/ Save
    \/ Upload
    \/ HeartbeatCheck
    \/ SleepTick
    \/ SleepRetry
    \/ AR_Increment
    \/ AR_HeartbeatDisconnected
    \/ AR_CheckMax
    \/ AR_Backoff
    \/ AR_Open
    \/ AR_HeartbeatOnline

\* The single thread of control always takes its next step: every call and
\* every sleep of the loop returns.  The staging directory plays no part in
\* reconnection: the runs start with it empty.
LiveInit == Init /\ tempFiles = {}
LiveSpec == LiveInit /\ [][NextLoop]_vars /\ WF_vars(NextLoop)

\* ======================================================================
\* Properties
\* ======================================================================

ArPcs == {"ar_inc", "ar_hb", "ar_check", "ar_sleep", "ar_open", "ar_online"}
TickEndPcs == {"hbcheck", "sleep_tick"}
ConnectedPcs == {"loop", "read", "classify", "sleep_black", "save", "upload",
                 "hbcheck", "sleep_tick"}

\* <<1, 2, ..., n>>
UpTo(n) == [i \in 1..n |-> i]
\* ceil(k / 2)
Half(k) == (k + 1) \div 2

\* C1 (as written): at the end of every tick that wrote an artifact, the
\* staging copy of that artifact is absent if and only if upload_image
\* returned true.
C1_StagingIffNotUploaded ==
    pc = "sleep_tick" => (upRet <=> filename \notin tempFiles)

\* C1 (amended): at the end of every tick that wrote an artifact, the staging
\* copy is absent if upload_image returned true and the removal of the staging
\* copy did not raise; it is present if upload_image returned false, and also
\* if the removal raised.
C1_StagingAfterTick ==
    pc = "sleep_tick" =>
        /\ filename \in outFiles
        /\ (upRet /\ ~rmFailed) => filename \notin tempFiles
        /\ (~upRet \/ rmFailed) => filename \in tempFiles

C1_Witness ==
    /\ pc = "sleep_tick"
    /\ upRet /\ ~rmFailed
    /\ filename \in outFiles /\ filename \notin tempFiles

\* C2: whenever the upload POST is answered with success, upload_image
\* reports true, whatever the outcome of the counter-increment call.
C2_IncrementNeverFlipsResult ==
    (pc \in TickEndPcs /\ upPost = 200) => upRet

\* C3: in every reachable state the reconnect counter is at most the
\* configured maximum.
C3_CounterBounded == reconnect_attempts <= max_reconnect_attempts

\* C4: once the counter has reached the maximum with no successful open, the
\* next invocation of the Reconnection Procedure starts again from counter
\* value 1.
C4_RestartsFromOne ==
    [][(pc = "ar_inc" /\ reconnect_attempts >= max_reconnect_attempts)
         => (pc' = "finally" \/ reconnect_attempts' = 1)]_vars

\* C5: while the video source stays connected, at the end of every tick at
\* most HeartbeatPeriod seconds of connected time have passed since the last
\* `online` heartbeat was sent, black frames included.
C5_OnlineEveryPeriod ==
    (pc \in {"sleep_black", "sleep_tick"} /\ cap = "opened")
        => quiet <= HeartbeatPeriod

\* C6: on every exit from the capture loop (interrupt or fault) the `offline`
\* heartbeat is sent exactly once, none is sent before the exit, and the
\* shutdown always goes on to completion, where the handle held by the loop
\* and the windowing resources are released, whatever the answer to the
\* notification.
C6_OfflineOnceAndShutdownCompletes ==
    /\ nOffline = (IF exitCause # "none" /\ pc # "finally" THEN 1 ELSE 0)
    /\ exitCause = "none" <=> pc \notin {"finally", "fin_release", "done", "crashed"}
    /\ exitCause # "none" => (pc = "done" \/ ENABLED Next)
    /\ pc = "done" => (released /\ cap \in {"None", "released"})

C6_Witness ==
    /\ pc = "done"
    /\ exitCause = "fault"
    /\ nOffline = 1
    /\ last_heartbeat = None
    /\ cap = "released"
    /\ released

\* C7: every invocation of attempt_reconnection, also at or beyond the
\* maximum, first increments the counter, then sends the `disconnected`
\* heartbeat, and only then waits the backoff or tries to open.
C7_DisconnectedFirst ==
    /\ pc = "ar_hb" => arLog = <<"inc">>
    /\ pc \in {"ar_check", "ar_sleep"} =>
          (arLog = <<"inc", "disconnected">> /\ hbLast = "disconnected")
    /\ pc = "ar_open" => arLog = <<"inc", "disconnected", "sleep">>
    /\ pc = "ar_online" => arLog = <<"inc", "disconnected", "sleep", "open">>
    /\ pc \notin ArPcs \cup {"finally", "fin_release", "done"} => arLog = <<>>

C7_Witness ==
    /\ pc = "ar_check"
    /\ reconnect_attempts > max_reconnect_attempts
    /\ arLog = <<"inc", "disconnected">>

\* C8: from the read of a black frame to the next read, no file is written to
\* the output or the staging directory and no upload is attempted; the tick
\* only waits the capture interval and goes back to the top of the loop.
C8_BlackFrameWritesNothing ==
    [][(frame = "black" /\ pc \in LoopPcs) =>
          /\ outFiles' = outFiles
          /\ tempFiles' = tempFiles
          /\ nUploads' = nUploads
          /\ pc = "classify" => pc' \in {"sleep_black", "finally"}
          /\ pc = "sleep_black" =>
                \/ pc' = "finally"
                \/ pc' = "loop" /\ now' = now + interval]_vars

C8_Witness ==
    /\ pc = "sleep_black"
    /\ frame = "black"
    /\ outFiles = {}
    /\ nUploads = 0

\* C9 (as written): if the first k opens fail and the next succeeds
\* (0 < k < max), the counter takes the values 1..k and then 0, k
\* `disconnected` heartbeats are sent and one `online` heartbeat is sent on
\* the successful open.
C9_ScenarioAsWritten ==
    (pc = "read" /\ ep.phase = "won" /\ 0 < ep.fails
                 /\ ep.fails < max_reconnect_attempts) =>
        /\ ep.trace = UpTo(ep.fails) \o <<0>>
        /\ ep.disc = ep.fails
        /\ ep.online = 1

\* C9 (amended): if the first k opens fail and the next succeeds
\* (0 < k < max), the counter takes the values 1..ceil(k/2) and then 0 and
\* ceil(k/2) `disconnected` heartbeats are sent (every second open is the one
\* inside the Reconnection Procedure); one `online` heartbeat is sent on the
\* successful open when that open is the one inside the Reconnection
\* Procedure (k odd) and none when it is the direct open (k even).
C9_ScenarioB ==
    (pc = "read" /\ ep.phase = "won" /\ 0 < ep.fails
                 /\ ep.fails < max_reconnect_attempts) =>
        /\ ep.trace = UpTo(Half(ep.fails)) \o <<0>>
        /\ ep.disc = Half(ep.fails)
        /\ ep.online = ep.fails % 2

C9_Witness ==
    /\ pc = "read"
    /\ ep.phase = "won"
    /\ ep.fails = 3
    /\ ep.trace = <<1, 2, 0>>
    /\ ep.disc = 2
    /\ ep.online = 1

\* C10: the agent is never Connected while the last heartbeat it emitted
\* carries status `disconnected`.
C10_ConnectedNotReportedDisconnected ==
    (is_connected /\ cap = "opened" /\ pc \in ConnectedPcs)
        => hbLast # "disconnected"

\* A step in which an open of the video source succeeds: the direct open at
\* the top of the loop, or the open inside attempt_reconnection.
OpenSucceeds ==
    \/ pc = "loop" /\ cap # "opened" /\ cap' = "opened"
    \/ pc = "ar_open" /\ arcap' = "opened"

\* C11: immediately after every successful open of the video source (direct
\* or inside the Reconnection Procedure) the reconnect counter is 0 and
\* is_connected is true, whatever the counter was before.
C11_OpenResetsCounter ==
    [][OpenSucceeds => (reconnect_attempts' = 0 /\ is_connected')]_vars

\* The first episode drove the counter to the maximum and beyond, and the
\* direct open that ended it left the counter at 0.
C11_Witness ==
    /\ pc = "read"
    /\ ep.phase = "won"
    /\ Len(ep.trace) > max_reconnect_attempts + 1
    /\ ep.trace[max_reconnect_attempts + 1] = max_reconnect_attempts + 1
    /\ reconnect_attempts = 0
    /\ is_connected
    /\ cap = "opened"

\* A step in which an open of the video source fails.
OpenFails ==
    \/ pc = "loop" /\ pc' = "ar_inc"
    \/ pc = "ar_open" /\ pc' = "sleep_retry"

Connected == is_connected /\ cap = "opened" /\ reconnect_attempts = 0

\* The clock of the model has reached its bound: no further sleep is modelled.
TimeUp == now + interval > MaxTime

Posted == {posts[i] : i \in 1..Len(posts)}

\* C13: no artifact is POSTed twice, in the tick that wrote it or in any later
\* one, every POST carries an artifact of the output directory, and the calls
\* of upload_image made so far issued at most one POST each.
C13_UploadedAtMostOnce ==
    /\ \A i, j \in 1..Len(posts) : posts[i] = posts[j] => i = j
    /\ Posted \subseteq outFiles
    /\ Len(posts) <= nUploads

\* A second tick went through its upload while the artifact of the first, whose
\* upload had failed, was still in staging: it was not POSTed again.
C13_Witness ==
    /\ pc = "hbcheck"
    /\ posts = <<1, 2>>
    /\ nUploads = 2
    /\ 1 \in tempFiles

\* C14: the counter-increment GET of a tick is made only after the upload
\* POST of that tick was answered 200; after a non-2xx answer or a transport
\* error of the POST the tick makes no increment call, and outside the end of
\* an uploading tick no increment call is on record.
C14_IncrementOnlyAfterSuccess ==
    /\ upInc # None => upPost = 200
    /\ (upPost = Err \/ (upPost # None /\ upPost \notin 200..299)) => upInc = None
    /\ pc \in LoopPcs \ TickEndPcs => upInc = None

\* Scenario C: the upload was answered 500, the staging copy is kept and no
\* increment call was made in the tick.
C14_Witness ==
    /\ pc = "sleep_tick"
    /\ upPost = 500
    /\ upInc = None
    /\ filename \in tempFiles
    /\ ~upRet

\* C15: a call of send_heartbeat or of upload_image returns true only if the
\* service answered with a 2xx status, returns false after a transport error
\* or a non-2xx answer, and in every case returns to its caller: the step
\* that makes the call continues at the statement after it and enters no
\* except clause.
C15_TrueOnlyOn2xx ==
    [][ /\ netCall'.kind = "heartbeat" =>
              /\ netCall'.ret => netCall'.resp \in 200..299
              /\ (netCall'.resp = Err \/ netCall'.resp \notin 200..299)
                    => ~netCall'.ret
              /\ exitCause' = exitCause
              /\ pc' \in (LoopPcs \cup {"fin_release"})
        /\ nUploads' # nUploads =>
              /\ upRet' => upPost' \in 200..299
              /\ (upPost' = Err \/ upPost' \notin 200..299) => ~upRet'
              /\ exitCause' = exitCause
              /\ pc' = "hbcheck"
      ]_vars

\* A tick whose upload failed in transport and whose cadence heartbeat was
\* answered 500: both calls returned false and the tick reached its sleep.
C15_Witness ==
    /\ pc = "sleep_tick"
    /\ upPost = Err
    /\ ~upRet
    /\ netCall.kind = "heartbeat"
    /\ netCall.resp = 500
    /\ ~netCall.ret
    /\ exitCause = "none"

\* C16: a send_heartbeat call that returns false leaves last_heartbeat as it
\* was, and last_heartbeat changes only in a step whose send_heartbeat call
\* returned true; while last_heartbeat is still None, the cadence check of a
\* tick that saved an artifact sends an `online` heartbeat.
C16_StampOnlyOnSuccess ==
    [][ /\ (netCall'.kind = "heartbeat" /\ ~netCall'.ret)
              => last_heartbeat' = last_heartbeat
        /\ last_heartbeat' # last_heartbeat
              => (netCall'.kind = "heartbeat" /\ netCall'.ret)
        /\ (pc = "hbcheck" /\ pc' = "sleep_tick" /\ last_heartbeat = None)
              => (netCall'.kind = "heartbeat" /\ netCall'.status = "online")
      ]_vars

\* No heartbeat has succeeded up to the second saving tick, whose cadence
\* check sent `online` again and was refused again.
C16_Witness ==
    /\ pc = "sleep_tick"
    /\ Cardinality(outFiles) = 2
    /\ last_heartbeat = None
    /\ netCall.kind = "heartbeat"
    /\ netCall.status = "online"
    /\ ~netCall.ret

\* Cleanup has run exactly once when anything else happens: before it nothing
\* was sent, opened or captured, and after it the count stays at one.
CleanupOnceAndFirst ==
    /\ pc = "cleanup" =>
          /\ nCleanup = 0
          /\ hbLast = "none"
          /\ netCall = NoCall
          /\ cap = "None" /\ arcap = "None"
          /\ frame = "none" /\ outFiles = {} /\ nUploads = 0
    /\ pc # "cleanup" => nCleanup = 1

\* The capture loop starts whatever the reconciliation call was answered.
LoopStartsAfterCleanup == pc = "start" => ENABLED CaptureStart

\* C17 (as written): cleanup runs exactly once, before the first heartbeat,
\* open and capture; when capture_screen begins the staging area holds no
\* file; a failed reconciliation call does not keep the loop from starting.
C17_StagingEmptyAtLoopStart ==
    /\ CleanupOnceAndFirst
    /\ LoopStartsAfterCleanup
    /\ pc = "start" => tempFiles = {}

\* C17 (amended): cleanup runs exactly once, before the first heartbeat, open
\* and capture; when capture_screen begins the staging area holds exactly the
\* stale files whose removal raised, none if every removal went through; a
\* failed reconciliation call does not keep the loop from starting.
C17_StagingPurgedBestEffort ==
    /\ CleanupOnceAndFirst
    /\ LoopStartsAfterCleanup
    /\ pc = "start" => (tempFiles = cleanupKept /\ cleanupKept \subseteq StaleNames)
    /\ pc # "cleanup" => cleanupKept \subseteq tempFiles

\* The removal of a stale file raised and the reconciliation call failed in
\* transport: capture_screen is about to start with that file in staging.
C17_Witness ==
    /\ pc = "start"
    /\ nCleanup = 1
    /\ netCall.kind = "cleanup"
    /\ netCall.resp = Err
    /\ tempFiles # {}

\* The program points from a failed read to the end of that iteration.
ReadFailedPcs == {"rd_mark", "rd_release"} \cup ArPcs \cup {"sleep_retry"}

\* C18: a read fails only while the agent is Connected with an open handle;
\* the agent then first sets is_connected to false, next releases the handle,
\* and only then enters attempt_reconnection; from the failed read to the end
\* of the iteration no file is written or removed and no upload is made; and
\* an iteration whose reconnection failed ends with a sleep of one interval.
C18_ReadFailureHandling ==
    [][ /\ pc = "read" => (is_connected /\ cap = "opened")
        /\ (pc = "read" /\ pc' = "rd_mark") => (is_connected' /\ cap' = "opened")
        /\ (pc = "rd_mark" /\ pc' # "finally") =>
              (pc' = "rd_release" /\ ~is_connected' /\ cap' = "opened")
        /\ (pc = "rd_release" /\ pc' # "finally") =>
              (pc' = "ar_inc" /\ ~is_connected /\ ~is_connected' /\ cap' = "None")
        /\ pc \in ReadFailedPcs =>
              UNCHANGED <<outFiles, tempFiles, nUploads, posts, filename>>
        /\ (pc = "sleep_retry" /\ pc' # "finally") =>
              (pc' = "loop" /\ now' = now + interval)
      ]_vars

\* After the agent had been Connected a read failed and the one reconnection
\* attempt that followed failed too: the agent is Disconnected, holds no
\* handle and is about to wait one interval.
C18_Witness ==
    /\ pc = "sleep_retry"
    /\ ep.phase = "over"
    /\ reconnect_attempts = 1
    /\ ~is_connected
    /\ cap = "None"

\* C19: when shutdown has completed, no handle the agent opened is still
\* open, neither the one held by the loop nor one opened inside
\* attempt_reconnection and not yet returned to the loop.
C19_AllHandlesReleased ==
    pc = "done" => (cap # "opened" /\ arcap # "opened")

\* C20: no step removes a file from the output directory, so a file written
\* there is present in every later state; a step of the capture loop removes
\* a staging file only in the upload step of a tick whose upload_image
\* returned true, and then only the staging copy of that tick's artifact; the
\* only other removals are those of the startup cleanup.
C20_OutputCopiesKept ==
    [][ /\ outFiles \subseteq outFiles'
        /\ (tempFiles \ tempFiles') # {} =>
              \/ pc = "cleanup"
              \/ /\ pc = "upload"
                 /\ upRet'
                 /\ tempFiles \ tempFiles' = {filename}
      ]_vars

\* Two artifacts were written: the upload of the first returned true and its
\* staging copy was removed, the upload of the second failed and its staging
\* copy is kept; both output copies are present.
C20_Witness ==
    /\ pc = "sleep_tick"
    /\ outFiles = {1, 2}
    /\ 1 \notin tempFiles
    /\ 2 \in tempFiles
    /\ ~upRet

====
